---- MODULE Spec2Model ----
(***************************************************************************)
(* jpeg2pdf: a JPEG file is parsed into an image descriptor, its optional  *)
(* leading blocks are optionally removed, and the re-serialised JPEG is    *)
(* embedded in a one-page PDF.                                             *)
(*                                                                         *)
(* src/src/main.rs and src/src/pdf.rs are modelled from their code.        *)
(* The module `jpeg` (mod jpeg; in main.rs:1) is modelled from sections 3  *)
(* and 4 of the specification: marker scanner, classifier, rewriter.       *)
(*                                                                         *)
(* A byte is an integer 0..255; a byte stream is a sequence of bytes.      *)
(* Text written with write!() is the sequence of its ASCII codes.          *)
(***************************************************************************)
EXTENDS Integers, Sequences, FiniteSets, TLC

VARIABLES
    file,                      \* the bytes of the input JPEG file
    remove_optional_metadata,  \* Opts.remove_optional_metadata
    pc,                        \* position of the program
    err,                       \* diagnostic of the failure that ended the run ("" if none)
    pos,                       \* reader position: index of the next byte of file (1-based)
    records,                   \* the (marker, payload) records the scanner has yielded
    jpeg,                      \* jpeg::Image, the image descriptor
    width_pt, height_pt,       \* the page size computed by main
    image,                     \* pdf::ImageXObject built by from_jpeg_image
    objects,                   \* Document.objects: object id -> ObjectData
    created,                   \* whether the output file has been created
    out,                       \* the bytes of the writer's stream
    pdf_start_pos,             \* Document::write: stream position on entry
    xref_offsets,              \* Document::write: object id -> offset
    xref_pos,                  \* Document::write: stream position of "xref"
    todo,                      \* Document::write: ids the current loop has still to visit
    cur_obj_id,                \* Document::write: the xref loop's counter
    prev,                      \* summary of the previous pass over the same data
    passes                     \* number of passes started so far

vars == <<file, remove_optional_metadata, pc, err, pos, records, jpeg,
          width_pt, height_pt, image, objects, created, out, pdf_start_pos,
          xref_offsets, xref_pos, todo, cur_obj_id, prev, passes>>

----------------------------------------------------------------------------
(* Bounds of the model *)

\* longest list of leading segments of a generated input file
MaxSegs == 3
\* largest object id of a generated object map
MaxObjId == 3
\* the writer may already hold this many bytes when Document::write starts
MaxStartPos == 1
\* passes made over one piece of data (a second pass re-reads or re-runs)
MaxPasses == 2

----------------------------------------------------------------------------
(* Sequences *)

Min(S) == CHOOSE x \in S : \A y \in S : x <= y
Max(S) == CHOOSE x \in S : \A y \in S : x >= y

----------------------------------------------------------------------------
(* jpeg: markers and segments (specification, section 3) *)

\* the marker codes (second byte of the 2-byte code 0xFF xx)
Marker ==
    [SOI |-> 216, EOI |-> 217, SOS |-> 218, DQT |-> 219, DHT |-> 196,
     DRI |-> 221, COM |-> 254, APP0 |-> 224, TEM |-> 1,
     SOF0 |-> 192, SOF1 |-> 193, SOF2 |-> 194, RST0 |-> 208, RST7 |-> 215]

\* markers with no length field: start-of-image, end-of-image, the restart
\* markers and the lone no-payload marker
HasLength(m) ==
    ~(m \in {Marker.SOI, Marker.EOI, Marker.TEM} \/ m \in Marker.RST0 .. Marker.RST7)

\* start-of-frame, baseline / extended / progressive
IsStartOfFrame(m) == m \in {Marker.SOF0, Marker.SOF1, Marker.SOF2}

\* Block::is_required: section 4.2's table; a marker with no length field is
\* structural and never eligible for filtering
is_required(b) ==
    \/ IsStartOfFrame(b.kind)
    \/ b.kind \in {Marker.DQT, Marker.DHT, Marker.DRI}
    \/ ~HasLength(b.kind)

\* a big-endian u16
U16(hi, lo) == hi * 256 + lo

----------------------------------------------------------------------------
(* jpeg: the marker scanner (specification, section 4.1) *)

ScanError(e) == [ok |-> FALSE, error |-> e, kind |-> 0, data |-> <<>>, pos |-> 0]
ScanRecord(m, d, p) == [ok |-> TRUE, error |-> "", kind |-> m, data |-> d, pos |-> p]

\* the index of the first byte at or after p that is not 0xFF
RECURSIVE SkipFill(_, _)
SkipFill(bytes, p) ==
    IF p <= Len(bytes) /\ bytes[p] = 255 THEN SkipFill(bytes, p + 1) ELSE p

\* the record of the segment that starts at index p, and the index after it
NextRecord(bytes, p) ==
    IF p > Len(bytes) THEN ScanError("UnexpectedEndOfData")
    ELSE IF bytes[p] # 255 THEN ScanError("MalformedStructure")
    ELSE LET q == SkipFill(bytes, p + 1) IN
         IF q > Len(bytes) THEN ScanError("UnexpectedEndOfData")
         ELSE IF bytes[q] = 0 THEN ScanError("MalformedStructure")
         ELSE IF ~HasLength(bytes[q]) THEN ScanRecord(bytes[q], <<>>, q + 1)
         ELSE IF q + 2 > Len(bytes) THEN ScanError("UnexpectedEndOfData")
         ELSE LET L == U16(bytes[q + 1], bytes[q + 2]) IN
              IF L < 2 THEN ScanError("MalformedStructure")
              ELSE IF q + L > Len(bytes) THEN ScanError("UnexpectedEndOfData")
              ELSE ScanRecord(bytes[q], SubSeq(bytes, q + 3, q + L), q + L + 1)

----------------------------------------------------------------------------
(* jpeg: classifier and metadata extraction (specification, section 4.2) *)

ColorSpace(tag, n) == [tag |-> tag, code |-> n]
DensityUnit(tag, n) == [tag |-> tag, code |-> n]

\* component count -> color space
ColorSpaceOf(n) ==
    IF n = 1 THEN ColorSpace("Grayscale", 0)
    ELSE IF n = 3 THEN ColorSpace("Rgb", 0)
    ELSE IF n = 4 THEN ColorSpace("Cmyk", 0)
    ELSE ColorSpace("Other", n)

\* density unit code -> density unit
DensityUnitOf(u) ==
    IF u = 0 THEN DensityUnit("NoUnit", 0)
    ELSE IF u = 1 THEN DensityUnit("DotsPerInch", 0)
    ELSE IF u = 2 THEN DensityUnit("DotsPerCentimeter", 0)
    ELSE DensityUnit("Other", u)

\* the 5-byte signature "JFIF\0"
JfifSignature == <<74, 70, 73, 70, 0>>

\* the descriptor before any segment is read: density_unit defaults to NoUnit
EmptyImage ==
    [width |-> 0, height |-> 0, bit_depth |-> 0,
     color_space |-> ColorSpace("Other", 0),
     density_unit |-> DensityUnit("NoUnit", 0), density_x |-> 0, density_y |-> 0,
     leading_blocks |-> <<>>, scan_data |-> <<>>]

\* whether the payload of a recognized segment is long enough to extract from
Extractable(r) ==
    IF IsStartOfFrame(r.kind) THEN Len(r.data) >= 6 ELSE TRUE

\* the descriptor after one more record of the scanner
Classify(img, r) ==
    LET d == r.data
        withFields ==
            IF IsStartOfFrame(r.kind)
            THEN [img EXCEPT !.bit_depth = d[1],
                             !.height = U16(d[2], d[3]),
                             !.width = U16(d[4], d[5]),
                             !.color_space = ColorSpaceOf(d[6])]
            ELSE IF /\ r.kind = Marker.APP0
                    /\ Len(d) >= 10
                    /\ SubSeq(d, 1, 5) = JfifSignature
            THEN [img EXCEPT !.density_unit = DensityUnitOf(d[6]),
                             !.density_x = U16(d[7], d[8]),
                             !.density_y = U16(d[9], d[10])]
            ELSE img
    IN  IF r.kind \in {Marker.SOI, Marker.EOI, Marker.SOS}
        THEN withFields
        ELSE [withFields EXCEPT
                 !.leading_blocks = Append(@, [kind |-> r.kind, data |-> d])]

----------------------------------------------------------------------------
(* jpeg: the rewriter, Image::write (specification, section 4.3) *)

\* a segment re-emitted: marker, recomputed length (payload length + 2), payload
WriteBlock(b) ==
    <<255, b.kind>> \o
    (IF HasLength(b.kind)
     THEN <<(Len(b.data) + 2) \div 256, (Len(b.data) + 2) % 256>> \o b.data
     ELSE <<>>)

RECURSIVE WriteBlocks(_)
WriteBlocks(bs) == IF bs = <<>> THEN <<>> ELSE WriteBlock(Head(bs)) \o WriteBlocks(Tail(bs))

\* start-of-image, the leading blocks in order, the scan data verbatim
JpegWrite(img) ==
    <<255, Marker.SOI>> \o WriteBlocks(img.leading_blocks) \o img.scan_data

----------------------------------------------------------------------------
(* Text: what write!() and format!() produce *)

\* "{}" of an unsigned integer: its decimal digits
RECURSIVE Dec(_)
Dec(n) == IF n < 10 THEN <<48 + n>> ELSE Dec(n \div 10) \o <<48 + (n % 10)>>

\* "{:010}": decimal digits, padded with zeros on the left to at least 10
RECURSIVE ZeroPad(_, _)
ZeroPad(digits, w) == IF Len(digits) >= w THEN digits ELSE ZeroPad(<<48>> \o digits, w)

Dec010(n) == ZeroPad(Dec(n), 10)

\* the literal text of Document::write
DocText ==
    [header |->   \* "%PDF-1.5\n"
        <<37, 80, 68, 70, 45, 49, 46, 53, 10>>,
     binary |->   \* "bytes 25e2e3cfd30a"
        <<37, 226, 227, 207, 211, 10>>,
     obj |->   \* " 0 obj\n"
        <<32, 48, 32, 111, 98, 106, 10>>,
     endobj |->   \* "endobj\n"
        <<101, 110, 100, 111, 98, 106, 10>>,
     xref |->   \* "xref\n"
        <<120, 114, 101, 102, 10>>,
     subsection |->   \* "0 "
        <<48, 32>>,
     free |->   \* " 65535 f\r\n"
        <<32, 54, 53, 53, 51, 53, 32, 102, 13, 10>>,
     inuse |->   \* " 00000 n\r\n"
        <<32, 48, 48, 48, 48, 48, 32, 110, 13, 10>>,
     trailer |->   \* "trailer\n"
        <<116, 114, 97, 105, 108, 101, 114, 10>>,
     size |->   \* "<< /Size "
        <<60, 60, 32, 47, 83, 105, 122, 101, 32>>,
     root |->   \* " /Root "
        <<32, 47, 82, 111, 111, 116, 32>>,
     ref |->   \* " 0 R"
        <<32, 48, 32, 82>>,
     close |->   \* " >>\n"
        <<32, 62, 62, 10>>,
     startxref |->   \* "startxref\n"
        <<115, 116, 97, 114, 116, 120, 114, 101, 102, 10>>,
     eof |->   \* "%%EOF\n"
        <<37, 37, 69, 79, 70, 10>>,
     nl |->   \* "\n"
        <<10>>]

\* the literal text of the write_to_pdf methods
ObjText ==
    [catalog |->   \* "<< /Type /Catalog"
        <<60, 60, 32, 47, 84, 121, 112, 101, 32, 47, 67, 97, 116, 97, 108, 111, 103>>,
     pagesRef |->   \* " /Pages "
        <<32, 47, 80, 97, 103, 101, 115, 32>>,
     ref |->   \* " 0 R"
        <<32, 48, 32, 82>>,
     close |->   \* " >>\n"
        <<32, 62, 62, 10>>,
     pages |->   \* "<< /Type /Pages"
        <<60, 60, 32, 47, 84, 121, 112, 101, 32, 47, 80, 97, 103, 101, 115>>,
     kids |->   \* " /Kids ["
        <<32, 47, 75, 105, 100, 115, 32, 91>>,
     sp |->   \* " "
        <<32>>,
     kidsEnd |->   \* " ]"
        <<32, 93>>,
     count |->   \* " /Count "
        <<32, 47, 67, 111, 117, 110, 116, 32>>,
     page |->   \* "<< /Type /Page"
        <<60, 60, 32, 47, 84, 121, 112, 101, 32, 47, 80, 97, 103, 101>>,
     parent |->   \* " /Parent "
        <<32, 47, 80, 97, 114, 101, 110, 116, 32>>,
     resources |->   \* " /Resources "
        <<32, 47, 82, 101, 115, 111, 117, 114, 99, 101, 115, 32>>,
     mediaBox |->   \* " /MediaBox [ 0 0 "
        <<32, 47, 77, 101, 100, 105, 97, 66, 111, 120, 32, 91, 32, 48, 32, 48, 32>>,
     contents |->   \* " /Contents "
        <<32, 47, 67, 111, 110, 116, 101, 110, 116, 115, 32>>,
     procSet |->   \* "<< /ProcSet [ /PDF /Text /ImageB /ImageC /ImageI ]"
        <<60, 60, 32, 47, 80, 114, 111, 99, 83, 101, 116, 32, 91, 32, 47, 80, 68, 70, 32, 47, 84, 101, 120, 116, 32, 47, 73, 109, 97, 103, 101, 66, 32, 47, 73, 109, 97, 103, 101, 67, 32, 47, 73, 109, 97, 103, 101, 73, 32, 93>>,
     xobject |->   \* " /XObject <<"
        <<32, 47, 88, 79, 98, 106, 101, 99, 116, 32, 60, 60>>,
     im |->   \* " /Im"
        <<32, 47, 73, 109>>,
     dictEnd |->   \* " >>"
        <<32, 62, 62>>,
     length |->   \* "<< /Length "
        <<60, 60, 32, 47, 76, 101, 110, 103, 116, 104, 32>>,
     stream |->   \* "stream\n"
        <<115, 116, 114, 101, 97, 109, 10>>,
     endstream |->   \* "\nendstream\n"
        <<10, 101, 110, 100, 115, 116, 114, 101, 97, 109, 10>>,
     imageHead |->   \* "<< /Type /XObject /Subtype /Image"
        <<60, 60, 32, 47, 84, 121, 112, 101, 32, 47, 88, 79, 98, 106, 101, 99, 116, 32, 47, 83, 117, 98, 116, 121, 112, 101, 32, 47, 73, 109, 97, 103, 101>>,
     width |->   \* " /Width "
        <<32, 47, 87, 105, 100, 116, 104, 32>>,
     height |->   \* " /Height "
        <<32, 47, 72, 101, 105, 103, 104, 116, 32>>,
     colorSpace |->   \* " /ColorSpace "
        <<32, 47, 67, 111, 108, 111, 114, 83, 112, 97, 99, 101, 32>>,
     bits |->   \* " /BitsPerComponent "
        <<32, 47, 66, 105, 116, 115, 80, 101, 114, 67, 111, 109, 112, 111, 110, 101, 110, 116, 32>>,
     filter |->   \* " /Filter ["
        <<32, 47, 70, 105, 108, 116, 101, 114, 32, 91>>,
     imageLength |->   \* " /Length "
        <<32, 47, 76, 101, 110, 103, 116, 104, 32>>,
     imageStream |->   \* " >>\nstream\n"
        <<32, 62, 62, 10, 115, 116, 114, 101, 97, 109, 10>>]

\* the literal text of the painting command, main.rs:86
CommandText ==
    [q |->   \* "q "
        <<113, 32>>,
     mid |->   \* " 0 0 "
        <<32, 48, 32, 48, 32>>,
     cm |->   \* " 0 0 cm /Im0 Do Q"
        <<32, 48, 32, 48, 32, 99, 109, 32, 47, 73, 109, 48, 32, 68, 111, 32, 81>>]

\* the literal text of from_jpeg_image, pdf.rs:180-188
ImageText ==
    [gray |->   \* "/DeviceGray"
        <<47, 68, 101, 118, 105, 99, 101, 71, 114, 97, 121>>,
     rgb |->   \* "/DeviceRGB"
        <<47, 68, 101, 118, 105, 99, 101, 82, 71, 66>>,
     cmyk |->   \* "/DeviceCMYK"
        <<47, 68, 101, 118, 105, 99, 101, 67, 77, 89, 75>>,
     dct |->   \* "/DCTDecode"
        <<47, 68, 67, 84, 68, 101, 99, 111, 100, 101>>]

----------------------------------------------------------------------------
(* pdf: the objects and their serialisation *)

Catalog(root_page_id) == [type |-> "Catalog", root_page_id |-> root_page_id]
Pages(page_ids) == [type |-> "Pages", page_ids |-> page_ids]
Page(parent_id, resources_id, contents_id, w, h) ==
    [type |-> "Page", parent_id |-> parent_id, resources_id |-> resources_id,
     contents_id |-> contents_id, width_pt |-> w, height_pt |-> h]
PageResources(ids) == [type |-> "PageResources", image_xobject_ids |-> ids]
PageContents(commands) == [type |-> "PageContents", commands |-> commands]

\* the image object before from_jpeg_image has built one
NoImageXObject ==
    [type |-> "ImageXObject", width |-> 0, height |-> 0, color_space |-> <<>>,
     bits_per_component |-> 0, interpolate |-> FALSE, data_filters |-> <<>>,
     data |-> <<>>]

CatalogWrite(o) ==
    ObjText.catalog \o ObjText.pagesRef \o Dec(o.root_page_id) \o ObjText.ref \o ObjText.close

RECURSIVE KidsWrite(_)
KidsWrite(ids) ==
    IF ids = <<>> THEN <<>>
    ELSE ObjText.sp \o Dec(Head(ids)) \o ObjText.ref \o KidsWrite(Tail(ids))

PagesWrite(o) ==
    ObjText.pages \o ObjText.kids \o KidsWrite(o.page_ids) \o ObjText.kidsEnd
    \o ObjText.count \o Dec(Len(o.page_ids)) \o ObjText.close

PageWrite(o) ==
    ObjText.page \o ObjText.parent \o Dec(o.parent_id) \o ObjText.ref
    \o ObjText.resources \o Dec(o.resources_id) \o ObjText.ref
    \o ObjText.mediaBox \o Dec(o.width_pt) \o ObjText.sp \o Dec(o.height_pt) \o ObjText.kidsEnd
    \o ObjText.contents \o Dec(o.contents_id) \o ObjText.ref \o ObjText.close

\* " /Im{index} {id} 0 R" for the ids from index i on (enumerate() counts from 0)
RECURSIVE XObjectsWrite(_, _)
XObjectsWrite(ids, i) ==
    IF i > Len(ids) THEN <<>>
    ELSE ObjText.im \o Dec(i - 1) \o ObjText.sp \o Dec(ids[i]) \o ObjText.ref
         \o XObjectsWrite(ids, i + 1)

PageResourcesWrite(o) ==
    ObjText.procSet \o ObjText.xobject \o XObjectsWrite(o.image_xobject_ids, 1)
    \o ObjText.dictEnd \o ObjText.close

PageContentsWrite(o) ==
    ObjText.length \o Dec(Len(o.commands)) \o ObjText.close
    \o ObjText.stream \o o.commands \o ObjText.endstream

RECURSIVE FiltersWrite(_)
FiltersWrite(fs) ==
    IF fs = <<>> THEN <<>> ELSE ObjText.sp \o Head(fs) \o FiltersWrite(Tail(fs))

ImageXObjectWrite(o) ==
    ObjText.imageHead \o ObjText.width \o Dec(o.width) \o ObjText.height \o Dec(o.height)
    \o ObjText.colorSpace \o o.color_space \o ObjText.bits \o Dec(o.bits_per_component)
    \o (IF Len(o.data_filters) > 0
        THEN ObjText.filter \o FiltersWrite(o.data_filters) \o ObjText.kidsEnd
        ELSE <<>>)
    \o ObjText.imageLength \o Dec(Len(o.data)) \o ObjText.imageStream
    \o o.data \o ObjText.endstream

\* ObjectData::write_to_pdf
write_to_pdf(o) ==
    CASE o.type = "Catalog" -> CatalogWrite(o)
      [] o.type = "Page" -> PageWrite(o)
      [] o.type = "Pages" -> PagesWrite(o)
      [] o.type = "PageResources" -> PageResourcesWrite(o)
      [] o.type = "PageContents" -> PageContentsWrite(o)
      [] o.type = "ImageXObject" -> ImageXObjectWrite(o)

----------------------------------------------------------------------------
(* Input files *)

\* leading segments as they lie in a file
SegAPP0Inch == <<255, 224, 0, 12, 74, 70, 73, 70, 0, 1, 0, 72, 0, 72>>          \* APP0 JFIF, 72x72 dots per inch
SegAPP0Centimeter == <<255, 224, 0, 12, 74, 70, 73, 70, 0, 2, 0, 100, 0, 100>>  \* APP0 JFIF, 100x100 dots per cm
SegAPP0Unit3 == <<255, 224, 0, 12, 74, 70, 73, 70, 0, 3, 0, 1, 0, 1>>           \* APP0 JFIF, unit code 3
SegCOM == <<255, 254, 0, 3, 33>>                                                \* COM "!"
SegDQT == <<255, 219, 0, 3, 0>>                                                 \* DQT
SegSOF0 == <<255, 192, 0, 8, 8, 0, 100, 0, 200, 3>>                             \* SOF0 8 bit, 200x100, 3 components
SegSOF1Deep == <<255, 193, 0, 8, 12, 0, 1, 0, 1, 1>>                            \* SOF1 12 bit, 1x1, 1 component
SegSOF2Two == <<255, 194, 0, 8, 8, 0, 1, 0, 1, 2>>                              \* SOF2 8 bit, 1x1, 2 components
SegTEM == <<255, 1>>                                                            \* TEM, no length field

\* the segments the input files of main are built from: every density unit,
\* bit depth and color space main tells apart
MainSegments ==
    {SegAPP0Inch, SegAPP0Centimeter, SegAPP0Unit3, SegDQT, SegSOF0, SegSOF1Deep, SegSOF2Two}

\* the segments the streams given to the parser and rewriter are built from:
\* optional and required ones, with and without a length field
CodecSegments == {SegAPP0Inch, SegCOM, SegDQT, SegSOF0, SegSOF2Two, SegTEM}

\* what follows the leading segments: a start-of-scan segment, entropy-coded
\* data with a comment segment and a second scan inside, and end-of-image
Scan == <<255, 218, 0, 3, 1, 52, 255, 254, 0, 3, 33, 255, 218, 0, 3, 2, 86, 255, 217>>

SeqsUpTo(S, n) == UNION { [1..k -> S] : k \in 0..n }

\* the segments of segs from number i on, with one fill byte 0xFF before
\* segment number fill
RECURSIVE Leading(_, _, _)
Leading(segs, i, fill) ==
    IF i > Len(segs) THEN <<>>
    ELSE (IF i = fill THEN <<255>> ELSE <<>>) \o segs[i] \o Leading(segs, i + 1, fill)

\* start-of-image, the leading segments, the scan; one fill byte before
\* segment number fill (before start-of-scan if fill = Len(segs) + 1)
Stream(segs, fill, scan) ==
    <<255, Marker.SOI>> \o Leading(segs, 1, fill)
    \o (IF fill = Len(segs) + 1 THEN <<255>> ELSE <<>>) \o scan

\* a file without its last byte
Truncated(bytes) == SubSeq(bytes, 1, Len(bytes) - 1)

\* Well-formed files without fill bytes, and files that cannot be parsed: no
\* scan at all, the last leading segment cut short, a wrong first marker.
MainFiles ==
    UNION { { Stream(segs, 0, Scan),
              Truncated(Stream(segs, 0, <<>>)),
              <<255, Marker.EOI>> \o Leading(segs, 1, 0) \o Scan }
            : segs \in SeqsUpTo(MainSegments, MaxSegs) }

\* The same, and well-formed files with a fill byte before the first segment
\* or before start-of-scan.
CodecFiles ==
    UNION { { Stream(segs, fill, Scan) : fill \in {0, 1, Len(segs) + 1} }
            \cup { Stream(segs, 0, <<>>),
                   Truncated(Stream(segs, 0, <<>>)),
                   <<255, Marker.EOI>> \o Leading(segs, 1, 0) \o Scan }
            : segs \in SeqsUpTo(CodecSegments, MaxSegs) }

NoRun ==
    [ran |-> FALSE, file |-> <<>>, flag |-> FALSE, pc |-> "",
     err |-> "", width_pt |-> 0, height_pt |-> 0, image |-> NoImageXObject,
     commands |-> <<>>, created |-> FALSE]

\* what a pass leaves behind for the next one to be compared with
Summary ==
    [ran |-> TRUE, file |-> file, flag |-> remove_optional_metadata, pc |-> pc, err |-> err, width_pt |-> width_pt,
     height_pt |-> height_pt, image |-> image,
     commands |-> IF 5 \in DOMAIN objects THEN objects[5].commands ELSE <<>>,
     created |-> created]

NoObjects == [i \in {} |-> 0]

----------------------------------------------------------------------------
(* main *)

jpegVars == <<pos, records, jpeg>>
pageVars == <<width_pt, height_pt, image, objects>>
writeVars == <<out, pdf_start_pos, xref_offsets, xref_pos, todo, cur_obj_id>>
runVars == <<file, remove_optional_metadata, prev, passes>>

InitRun ==
    /\ err = ""
    /\ pos = 1
    /\ records = <<>>
    /\ jpeg = EmptyImage
    /\ width_pt = 0
    /\ height_pt = 0
    /\ image = NoImageXObject
    /\ objects = NoObjects
    /\ created = FALSE
    /\ out = <<>>
    /\ pdf_start_pos = 0
    /\ xref_offsets = NoObjects
    /\ xref_pos = 0
    /\ todo = {}
    /\ cur_obj_id = 0

Init ==
    /\ file \in MainFiles
    /\ remove_optional_metadata \in BOOLEAN
    /\ pc = "open"
    /\ prev = NoRun
    /\ passes = 1
    /\ InitRun

\* a panic!(), or an expect()/unwrap() that fails
Panic(e) ==
    /\ pc' = "panic"
    /\ err' = e

\* a plausible slip: the output file is created as soon as main starts
OpenCreatesOutput ==
    /\ pc = "open"
    /\ pc' = "read"
    /\ created' = TRUE
    /\ UNCHANGED <<err, jpegVars, pageVars, writeVars, runVars>>

\* main.rs:28-29, File::open succeeds
Open ==
    /\ pc = "open"
    /\ pc' = "read"
    /\ UNCHANGED <<err, created, jpegVars, pageVars, writeVars, runVars>>

\* main.rs:28-29, File::open fails
OpenFails ==
    /\ pc = "open"
    /\ Panic("failed to open input JPEG file")
    /\ UNCHANGED <<created, jpegVars, pageVars, writeVars, runVars>>

\* try_read: the first marker must be start-of-image
ReadSOI ==
    /\ pc = "read"
    /\ records = <<>>
    /\ IF Len(file) < 2
       THEN Panic("UnexpectedEndOfData") /\ UNCHANGED <<pos, records>>
       ELSE IF SubSeq(file, 1, 2) # <<255, Marker.SOI>>
       THEN Panic("MalformedStructure") /\ UNCHANGED <<pos, records>>
       ELSE /\ records' = <<[kind |-> Marker.SOI, data |-> <<>>]>>
            /\ pos' = 3
            /\ UNCHANGED <<pc, err>>
    /\ UNCHANGED <<jpeg, created, pageVars, writeVars, runVars>>

\* a plausible slip: the scanner does not stop after start-of-scan
ReadSegmentOn ==
    /\ pc = "read"
    /\ records # <<>>
    /\ LET r == NextRecord(file, pos) IN
       IF ~r.ok
       THEN Panic(r.error) /\ UNCHANGED <<pos, records, jpeg>>
       ELSE /\ records' = Append(records, [kind |-> r.kind, data |-> r.data])
            /\ jpeg' = Classify(jpeg, r)
            /\ pos' = r.pos
            /\ UNCHANGED <<pc, err>>
    /\ UNCHANGED <<created, pageVars, writeVars, runVars>>

\* try_read: the scanner yields the next record and the classifier takes it;
\* after a start-of-scan record the scanner stops
ReadSegment ==
    /\ pc = "read"
    /\ records # <<>>
    /\ LET r == NextRecord(file, pos) IN
       IF ~r.ok
       THEN Panic(r.error) /\ UNCHANGED <<pos, records, jpeg>>
       ELSE IF ~Extractable(r)
       THEN Panic("UnexpectedEndOfData") /\ UNCHANGED <<pos, records, jpeg>>
       ELSE /\ records' = Append(records, [kind |-> r.kind, data |-> r.data])
            /\ jpeg' = Classify(jpeg, r)
            /\ pos' = r.pos
            /\ pc' = IF r.kind = Marker.SOS THEN "read_scan" ELSE "read"
            /\ err' = err
    /\ UNCHANGED <<created, pageVars, writeVars, runVars>>

\* try_read: no start-of-frame among the leading segments is an error; the
\* scan data is the start-of-scan segment and every byte that follows it
ReadScanData(next) ==
    /\ pc = "read_scan"
    /\ IF \A i \in 1..Len(records) : ~IsStartOfFrame(records[i].kind)
       THEN Panic("MissingRequiredSegment") /\ UNCHANGED <<pos, jpeg>>
       ELSE /\ jpeg' = [jpeg EXCEPT !.scan_data =
                           WriteBlock(records[Len(records)]) \o SubSeq(file, pos, Len(file))]
            /\ pos' = Len(file) + 1
            /\ pc' = next
            /\ err' = err
    /\ UNCHANGED <<records, created, pageVars, writeVars, runVars>>

\* main.rs:33-38
CheckImage ==
    /\ pc = "check"
    /\ IF jpeg.bit_depth # 8
       THEN Panic("JPEG bit depth is not supported")
       ELSE IF jpeg.color_space.tag = "Other"
       THEN Panic("color space is not supported")
       ELSE pc' = "retain" /\ err' = err
    /\ UNCHANGED <<created, jpegVars, pageVars, writeVars, runVars>>

\* a plausible slip: the predicate of the retain is negated
RetainNotRequired(img) ==
    [img EXCEPT !.leading_blocks = SelectSeq(@, LAMBDA b : ~is_required(b))]

\* a plausible slip: the last block is removed as well
RetainAndPop(img) ==
    [img EXCEPT !.leading_blocks =
        LET kept == SelectSeq(@, is_required) IN
        IF kept = <<>> THEN kept ELSE SubSeq(kept, 1, Len(kept) - 1)]

\* main.rs:42, leading_blocks.retain(|b| b.is_required())
Retain(img) == [img EXCEPT !.leading_blocks = SelectSeq(@, is_required)]

\* a plausible slip: after the filtering the density is taken from the
\* segments that are left, and the application segment 0 is never among them
RetainOptionalRederive(next) ==
    /\ pc = "retain"
    /\ jpeg' = IF remove_optional_metadata
               THEN [Retain(jpeg) EXCEPT !.density_unit = DensityUnit("NoUnit", 0),
                                         !.density_x = 0, !.density_y = 0]
               ELSE jpeg
    /\ pc' = next
    /\ UNCHANGED <<err, created, pos, records, pageVars, writeVars, runVars>>

\* main.rs:40-43
RetainOptional(next) ==
    /\ pc = "retain"
    /\ jpeg' = IF remove_optional_metadata THEN Retain(jpeg) ELSE jpeg
    /\ pc' = next
    /\ UNCHANGED <<err, created, pos, records, pageVars, writeVars, runVars>>

\* a plausible slip: the division is made before the multiplication
PtPerInchDivideFirst(px, density) == (px \div density) * 72

\* main.rs:50-51: (u64::from(px) * 72) / u64::from(density); a u32 times 72
\* is below 2^64, so the u64 product is the exact product
PtPerInch(px, density) == (px * 72) \div density

\* main.rs:55-56: (u64::from(px) * 7200) / (u64::from(density) * 254)
PtPerCentimeter(px, density) == (px * 7200) \div (density * 254)

\* main.rs:46-59; an integer division by zero panics
ComputePageSize ==
    /\ pc = "size"
    /\ CASE jpeg.density_unit.tag = "NoUnit" ->
                Panic("no density unit specified") /\ UNCHANGED <<width_pt, height_pt>>
         [] jpeg.density_unit.tag = "Other" ->
                Panic("unknown density unit") /\ UNCHANGED <<width_pt, height_pt>>
         [] jpeg.density_unit.tag = "DotsPerInch" ->
                IF jpeg.density_x = 0 \/ jpeg.density_y = 0
                THEN Panic("attempt to divide by zero") /\ UNCHANGED <<width_pt, height_pt>>
                ELSE /\ width_pt' = PtPerInch(jpeg.width, jpeg.density_x)
                     /\ height_pt' = PtPerInch(jpeg.height, jpeg.density_y)
                     /\ pc' = "build"
                     /\ err' = err
         [] jpeg.density_unit.tag = "DotsPerCentimeter" ->
                IF jpeg.density_x = 0 \/ jpeg.density_y = 0
                THEN Panic("attempt to divide by zero") /\ UNCHANGED <<width_pt, height_pt>>
                ELSE /\ width_pt' = PtPerCentimeter(jpeg.width, jpeg.density_x)
                     /\ height_pt' = PtPerCentimeter(jpeg.height, jpeg.density_y)
                     /\ pc' = "build"
                     /\ err' = err
    /\ UNCHANGED <<created, jpegVars, image, objects, writeVars, runVars>>

\* pdf.rs:178-199: the image object of from_jpeg_image, holding the given data
ImageWith(jpeg_image, data) ==
    [some |-> TRUE,
     value |-> [type |-> "ImageXObject",
                width |-> jpeg_image.width,
                height |-> jpeg_image.height,
                color_space |->
                    CASE jpeg_image.color_space.tag = "Grayscale" -> ImageText.gray
                      [] jpeg_image.color_space.tag = "Rgb" -> ImageText.rgb
                      [] jpeg_image.color_space.tag = "Cmyk" -> ImageText.cmyk,
                bits_per_component |-> jpeg_image.bit_depth,
                interpolate |-> FALSE,
                data_filters |-> <<ImageText.dct>>,
                data |-> data]]

\* a plausible slip: only the required blocks are written to data
FromJpegImageRequiredOnly(jpeg_image) ==
    IF jpeg_image.color_space.tag = "Other"
    THEN [some |-> FALSE, value |-> NoImageXObject]
    ELSE ImageWith(jpeg_image, JpegWrite(Retain(jpeg_image)))

\* a plausible slip: data is one byte short
FromJpegImageShort(jpeg_image) ==
    IF jpeg_image.color_space.tag = "Other"
    THEN [some |-> FALSE, value |-> NoImageXObject]
    ELSE ImageWith(jpeg_image,
                   SubSeq(JpegWrite(jpeg_image), 1, Len(JpegWrite(jpeg_image)) - 1))

\* pdf.rs:177-200, ImageXObject::from_jpeg_image; some = FALSE is None
FromJpegImage(jpeg_image) ==
    IF jpeg_image.color_space.tag = "Other"
    THEN [some |-> FALSE, value |-> NoImageXObject]
    ELSE ImageWith(jpeg_image, JpegWrite(jpeg_image))

\* main.rs:86, format!("q {} 0 0 {} 0 0 cm /Im0 Do Q", width_pt, height_pt)
Commands(w, h) == CommandText.q \o Dec(w) \o CommandText.mid \o Dec(h) \o CommandText.cm

\* main.rs:69-98
BuildObjects ==
    /\ pc = "build"
    /\ LET made == FromJpegImage(jpeg) IN
       IF ~made.some
       THEN Panic("unwrap on None") /\ UNCHANGED <<image, objects>>
       ELSE /\ image' = made.value
            /\ objects' = (1 :> Catalog(2)) @@ (2 :> Pages(<<3>>))
                          @@ (3 :> Page(2, 4, 5, width_pt, height_pt))
                          @@ (4 :> PageResources(<<6>>))
                          @@ (5 :> PageContents(Commands(width_pt, height_pt)))
                          @@ (6 :> made.value)
            /\ pc' = "create"
            /\ err' = err
    /\ UNCHANGED <<created, jpegVars, width_pt, height_pt, writeVars, runVars>>

\* main.rs:100-101, File::create succeeds: the file exists and is empty
CreateOutput ==
    /\ pc = "create"
    /\ created' = TRUE
    /\ out' = <<>>
    /\ pc' = "write"
    /\ UNCHANGED <<err, jpegVars, pageVars, pdf_start_pos, xref_offsets, xref_pos, todo,
                   cur_obj_id, runVars>>

\* main.rs:100-101, File::create fails
CreateFails ==
    /\ pc = "create"
    /\ Panic("failed to create output PDF file")
    /\ UNCHANGED <<created, jpegVars, pageVars, writeVars, runVars>>

----------------------------------------------------------------------------
(* pdf: Document::write, pdf.rs:14-65 *)

\* pdf.rs:15-19; the loop of pdf.rs:23 visits the ids in ascending order
WriteHeader ==
    /\ pc = "write"
    /\ pdf_start_pos' = Len(out)
    /\ out' = out \o DocText.header \o DocText.binary
    /\ xref_offsets' = NoObjects
    /\ todo' = DOMAIN objects
    /\ pc' = "write_objects"
    /\ UNCHANGED <<err, created, jpegVars, pageVars, xref_pos, cur_obj_id, runVars>>

\* a plausible slip: the stream position itself is recorded
ObjectOffsetAbsolute(object_start_pos, start) == object_start_pos

\* pdf.rs:24-25: the object's offset is the stream position less pdf_start_pos
ObjectOffset(object_start_pos, start) == object_start_pos - start

\* pdf.rs:23-29, one turn of the loop
WriteObject ==
    /\ pc = "write_objects"
    /\ todo # {}
    /\ LET id == Min(todo) IN
       /\ xref_offsets' = (id :> ObjectOffset(Len(out), pdf_start_pos)) @@ xref_offsets
       /\ out' = out \o Dec(id) \o DocText.obj \o write_to_pdf(objects[id]) \o DocText.endobj
       /\ todo' = todo \ {id}
    /\ UNCHANGED <<pc, err, created, jpegVars, pageVars, pdf_start_pos, xref_pos,
                   cur_obj_id, runVars>>

\* pdf.rs:31-39
WriteXrefHead ==
    /\ pc = "write_objects"
    /\ todo = {}
    /\ IF DOMAIN objects = {}
       THEN Panic("no objects") /\ UNCHANGED <<out, xref_pos, todo, cur_obj_id>>
       ELSE LET max_obj_id == Max(DOMAIN objects) IN
            /\ xref_pos' = Len(out)
            /\ out' = out \o DocText.xref \o DocText.subsection \o Dec(max_obj_id + 1)
                      \o DocText.nl
            /\ cur_obj_id' = 0
            /\ todo' = DOMAIN xref_offsets
            /\ pc' = "write_xref"
            /\ err' = err
    /\ UNCHANGED <<created, jpegVars, pageVars, pdf_start_pos, xref_offsets, runVars>>

\* a plausible slip: an if where the while of pdf.rs:41 stands, so that at most
\* one free entry is written before an object's entry
FreeEntriesOnce(cur, id, xref_offset) ==
    IF cur < id THEN Dec010(xref_offset) \o DocText.free ELSE <<>>

\* pdf.rs:41-44: the free entries written before the entry of object id
RECURSIVE FreeEntries(_, _, _)
FreeEntries(cur, id, xref_offset) ==
    IF cur < id
    THEN Dec010(xref_offset) \o DocText.free \o FreeEntries(cur + 1, id, xref_offset)
    ELSE <<>>

\* pdf.rs:40-47, one turn of the outer loop
WriteXrefEntry ==
    /\ pc = "write_xref"
    /\ todo # {}
    /\ LET id == Min(todo)
           xref_offset == xref_offsets[id]
       IN  /\ out' = out \o FreeEntries(cur_obj_id, id, xref_offset)
                     \o Dec010(xref_offset) \o DocText.inuse
           /\ cur_obj_id' = (IF cur_obj_id < id THEN id ELSE cur_obj_id) + 1
           /\ todo' = todo \ {id}
    /\ UNCHANGED <<pc, err, created, jpegVars, pageVars, pdf_start_pos, xref_offsets,
                   xref_pos, runVars>>

\* pdf.rs:49-63
WriteTrailer ==
    /\ pc = "write_xref"
    /\ todo = {}
    /\ LET catalogs == { id \in DOMAIN objects : objects[id].type = "Catalog" }
           max_obj_id == Max(DOMAIN objects)
       IN  IF catalogs = {}
           THEN Panic("no catalog object found") /\ UNCHANGED out
           ELSE /\ out' = out \o DocText.trailer \o DocText.size \o Dec(max_obj_id + 1)
                          \o DocText.root \o Dec(Min(catalogs)) \o DocText.ref \o DocText.close
                          \o DocText.startxref \o Dec(xref_pos - pdf_start_pos) \o DocText.nl
                          \o DocText.eof
                /\ pc' = "done"
                /\ err' = err
    /\ UNCHANGED <<created, jpegVars, pageVars, pdf_start_pos, xref_offsets, xref_pos,
                   todo, cur_obj_id, runVars>>

\* a write!() of Document::write returns an error (the ? operator returns it;
\* main.rs:102-103 panics on it); what was written so far stays in the file
WriteError ==
    /\ pc \in {"write", "write_objects", "write_xref"}
    /\ Panic("failed to write output PDF file")
    /\ UNCHANGED <<created, jpegVars, pageVars, writeVars, runVars>>

----------------------------------------------------------------------------
(* Passes *)

\* another pass: the state of a fresh process, and the last pass's summary
Restart(newFile, newFlag, start) ==
    /\ passes < MaxPasses
    /\ passes' = passes + 1
    /\ prev' = Summary
    /\ file' = newFile
    /\ remove_optional_metadata' = newFlag
    /\ pc' = start
    /\ err' = ""
    /\ pos' = 1
    /\ records' = <<>>
    /\ jpeg' = EmptyImage
    /\ width_pt' = 0
    /\ height_pt' = 0
    /\ image' = NoImageXObject
    /\ objects' = NoObjects
    /\ created' = FALSE
    /\ out' = <<>>
    /\ pdf_start_pos' = 0
    /\ xref_offsets' = NoObjects
    /\ xref_pos' = 0
    /\ todo' = {}
    /\ cur_obj_id' = 0

\* the program is run again on the same input file with the flag flipped
RunAgain ==
    /\ pc \in {"done", "panic"}
    /\ Restart(file, ~remove_optional_metadata, "open")

Next ==
    \/ Open
    \/ OpenFails
    \/ ReadSOI
    \/ ReadSegment
    \/ ReadScanData("check")
    \/ CheckImage
    \/ RetainOptional("size")
    \/ ComputePageSize
    \/ BuildObjects
    \/ CreateOutput
    \/ CreateFails
    \/ WriteHeader
    \/ WriteObject
    \/ WriteXrefHead
    \/ WriteXrefEntry
    \/ WriteTrailer
    \/ WriteError
    \/ RunAgain

\* main, run once or twice on an input file
Spec == Init /\ [][Next]_vars

----------------------------------------------------------------------------
(* The parser and the rewriter used on their own: try_read, the retain of
   main.rs:42, from_jpeg_image; then again with the flag flipped, or on the
   rewritten stream *)

InitCodec ==
    /\ file \in CodecFiles
    /\ remove_optional_metadata \in BOOLEAN
    /\ pc = "read"
    /\ prev = NoRun
    /\ passes = 1
    /\ InitRun

\* pdf.rs:177-200 called on the descriptor
Rewrite ==
    /\ pc = "image"
    /\ LET made == FromJpegImage(jpeg) IN
       /\ image' = made.value
       /\ pc' = IF made.some THEN "written" ELSE "none"
    /\ UNCHANGED <<err, created, jpegVars, width_pt, height_pt, objects, writeVars, runVars>>

\* the same file is parsed and rewritten again with the flag flipped
RewriteOther ==
    /\ pc = "written"
    /\ Restart(file, ~remove_optional_metadata, "read")

\* the rewritten stream is parsed and rewritten again
Reparse ==
    /\ pc = "written"
    /\ Restart(image.data, remove_optional_metadata, "read")

NextCodec ==
    \/ ReadSOI
    \/ ReadSegment
    \/ ReadScanData("retain")
    \/ RetainOptional("image")
    \/ Rewrite
    \/ RewriteOther
    \/ Reparse

SpecCodec == InitCodec /\ [][NextCodec]_vars

----------------------------------------------------------------------------
(* Document::write on any object map *)

ObjectPool == { Catalog(1), Pages(<<2>>), PageContents(<<113>>) }

ObjectMaps == UNION { [S -> ObjectPool] : S \in SUBSET (0..MaxObjId) }

\* what the writer holds before the document: nothing, or a few bytes
Prefixes == { [i \in 1..n |-> 37] : n \in 0..MaxStartPos }

InitWrite ==
    /\ file = <<>>
    /\ remove_optional_metadata = FALSE
    /\ pc = "write"
    /\ prev = NoRun
    /\ passes = 1
    /\ err = ""
    /\ pos = 1
    /\ records = <<>>
    /\ jpeg = EmptyImage
    /\ width_pt = 0
    /\ height_pt = 0
    /\ image = NoImageXObject
    /\ objects \in ObjectMaps
    /\ created = TRUE
    /\ out \in Prefixes
    /\ pdf_start_pos = 0
    /\ xref_offsets = NoObjects
    /\ xref_pos = 0
    /\ todo = {}
    /\ cur_obj_id = 0

NextWrite ==
    \/ WriteHeader
    \/ WriteObject
    \/ WriteXrefHead
    \/ WriteXrefEntry
    \/ WriteTrailer
    \/ WriteError

SpecWrite == InitWrite /\ [][NextWrite]_vars

----------------------------------------------------------------------------
(* The page size of any descriptor *)

PixelPool == {0, 1, 71, 100, 200, 65535, 298261}
DensityPool == {0, 1, 72, 100, 300, 65535}
UnitPool == {0, 1, 2, 3}

InitPage ==
    /\ file = <<>>
    /\ remove_optional_metadata = FALSE
    /\ pc = "size"
    /\ prev = NoRun
    /\ passes = 1
    /\ \E w \in PixelPool, h \in {1, 100, 65535}, dx \in DensityPool, dy \in {0, 72, 100},
          u \in UnitPool :
          jpeg = [EmptyImage EXCEPT !.width = w, !.height = h, !.bit_depth = 8,
                                    !.color_space = ColorSpaceOf(3),
                                    !.density_unit = DensityUnitOf(u),
                                    !.density_x = dx, !.density_y = dy]
    /\ err = ""
    /\ pos = 1
    /\ records = <<>>
    /\ width_pt = 0
    /\ height_pt = 0
    /\ image = NoImageXObject
    /\ objects = NoObjects
    /\ created = FALSE
    /\ out = <<>>
    /\ pdf_start_pos = 0
    /\ xref_offsets = NoObjects
    /\ xref_pos = 0
    /\ todo = {}
    /\ cur_obj_id = 0

NextPage == ComputePageSize

SpecPage == InitPage /\ [][NextPage]_vars

----------------------------------------------------------------------------
(* Reading a written document back *)

IsDigit(b) == b \in 48..57

\* the number whose decimal digits start at index p
RECURSIVE ReadDecFrom(_, _, _)
ReadDecFrom(bytes, p, acc) ==
    IF p <= Len(bytes) /\ IsDigit(bytes[p])
    THEN ReadDecFrom(bytes, p + 1, acc * 10 + (bytes[p] - 48))
    ELSE acc

ReadDec(bytes, p) == ReadDecFrom(bytes, p, 0)

\* the number of decimal digits that start at index p
RECURSIVE DigitsAt(_, _)
DigitsAt(bytes, p) ==
    IF p <= Len(bytes) /\ IsDigit(bytes[p]) THEN 1 + DigitsAt(bytes, p + 1) ELSE 0

\* whether the text pat lies at byte offset off (counted from 0)
TextAt(bytes, off, pat) ==
    /\ off >= 0
    /\ off + Len(pat) <= Len(bytes)
    /\ SubSeq(bytes, off + 1, off + Len(pat)) = pat

\* the offset, in the writer's stream, of the last "startxref\n"
StartXrefAt ==
    Max({ off \in 0..Len(out) : TextAt(out, off, DocText.startxref) })

\* the value written under startxref, an offset from the start of the PDF
StartXrefValue == ReadDec(out, StartXrefAt + Len(DocText.startxref) + 1)

\* the offset, in the writer's stream, that startxref points to
XrefAt == pdf_start_pos + StartXrefValue

\* the count declared by the subsection line "0 <count>\n"
XrefCount == ReadDec(out, XrefAt + Len(DocText.xref) + 3)

\* the offset, in the writer's stream, of the first 20-byte xref entry
XrefEntriesAt ==
    XrefAt + Len(DocText.xref) + 2 + DigitsAt(out, XrefAt + Len(DocText.xref) + 3) + 1

\* the 20 bytes of the xref entry at position i (counted from 0)
XrefEntry(i) == SubSeq(out, XrefEntriesAt + 20 * i + 1, XrefEntriesAt + 20 * i + 20)

\* an xref entry is "in use" if its type letter is n, free if it is f
EntryInUse(e) == Len(e) = 20 /\ SubSeq(e, 11, 20) = DocText.inuse
EntryFree(e) == Len(e) = 20 /\ SubSeq(e, 11, 20) = DocText.free
EntryOffset(e) == ReadDec(e, 1)

\* the value of /Size in the trailer that follows n entries
TrailerSize(n) ==
    ReadDec(out, XrefEntriesAt + 20 * n + Len(DocText.trailer) + Len(DocText.size) + 1)

----------------------------------------------------------------------------
(* Claims about Document::write *)

\* C6: after Document::write on a non-empty object map that holds a catalog,
\* the value under startxref is the offset of the keyword "xref", and the
\* in-use xref entry of every object id holds the offset, from the start of
\* the PDF, of the first byte of that object's "<id> 0 obj" header.
C6_OffsetsPointToTargets ==
    pc = "done" =>
        /\ TextAt(out, XrefAt, DocText.xref)
        /\ StartXrefValue = xref_pos - pdf_start_pos
        /\ \A id \in DOMAIN objects :
              /\ EntryInUse(XrefEntry(id))
              /\ DigitsAt(XrefEntry(id), 1) = 10
              /\ TextAt(out, pdf_start_pos + EntryOffset(XrefEntry(id)),
                        Dec(id) \o DocText.obj)
              /\ \/ EntryOffset(XrefEntry(id)) = Len(DocText.header) + Len(DocText.binary)
                 \/ TextAt(out, pdf_start_pos + EntryOffset(XrefEntry(id)) - Len(DocText.endobj),
                           DocText.endobj)

\* C6 witness: a document of several objects, with a gap in the ids, written
\* to a stream that already held bytes
C6_Witness ==
    /\ pc = "done"
    /\ pdf_start_pos > 0
    /\ Cardinality(DOMAIN objects) >= 2
    /\ \E i \in 0..Max(DOMAIN objects) : i \notin DOMAIN objects
    /\ created

\* the parts of C10 that hold of every written document: the xref section
\* holds max_obj_id + 1 entries, as many as the subsection line and /Size
\* declare, and the entry at position i is in use if id i is in the map and
\* free otherwise
XrefSectionMatchesMap ==
    LET n == Max(DOMAIN objects) + 1 IN
    /\ TextAt(out, XrefAt, DocText.xref \o DocText.subsection \o Dec(n) \o DocText.nl)
    /\ XrefCount = n
    /\ TextAt(out, XrefEntriesAt + 20 * n, DocText.trailer \o DocText.size \o Dec(n))
    /\ TrailerSize(n) = n
    /\ \A i \in 0..(n - 1) :
          IF i \in DOMAIN objects
          THEN EntryInUse(XrefEntry(i))
          ELSE EntryFree(XrefEntry(i))

\* C10 as claimed: ..., and position 0 is always a free entry.
C10_Original ==
    pc = "done" => XrefSectionMatchesMap /\ EntryFree(XrefEntry(0))

\* C10 as amended: for any non-empty object map, gaps in the ids included,
\* the xref section holds exactly max_obj_id + 1 entries, as many as the
\* subsection line "0 <max_obj_id + 1>" and the trailer's /Size declare; the
\* entry at position i is an in-use entry exactly when id i is in the map and
\* a free entry otherwise, so position 0 is a free entry exactly when the map
\* holds no object with id 0.
C10_XrefSection ==
    pc = "done" =>
        /\ XrefSectionMatchesMap
        /\ EntryFree(XrefEntry(0)) <=> (0 \notin DOMAIN objects)

\* C10 witness: a written document whose ids have a gap of two or more
C10_Witness ==
    /\ pc = "done"
    /\ \E i \in DOMAIN objects : i >= 2 /\ (i - 1) \notin DOMAIN objects
                                 /\ (i - 2) \notin DOMAIN objects
    /\ 0 \notin DOMAIN objects

----------------------------------------------------------------------------
(* Claims about the page size *)

\* q = floor(num / den)
IsFloorOf(q, num, den) == den > 0 /\ q >= 0 /\ q * den <= num /\ num - q * den < den

PageSizeIsFloor ==
    /\ pc = "build"
    /\ jpeg.density_unit.tag = "DotsPerInch" =>
          /\ IsFloorOf(width_pt, jpeg.width * 72, jpeg.density_x)
          /\ IsFloorOf(height_pt, jpeg.height * 72, jpeg.density_y)
    /\ jpeg.density_unit.tag = "DotsPerCentimeter" =>
          /\ IsFloorOf(width_pt, jpeg.width * 7200, jpeg.density_x * 254)
          /\ IsFloorOf(height_pt, jpeg.height * 7200, jpeg.density_y * 254)

HasPageUnit == jpeg.density_unit.tag \in {"DotsPerInch", "DotsPerCentimeter"}

\* the descriptor is 1x1 px at 72x72 dots per inch
OneByOneAt72 ==
    /\ jpeg.density_unit.tag = "DotsPerInch"
    /\ jpeg.width = 1 /\ jpeg.height = 1
    /\ jpeg.density_x = 72 /\ jpeg.density_y = 72

\* the descriptor is 100 px wide at 100 dots per centimeter
HundredAt100 ==
    /\ jpeg.density_unit.tag = "DotsPerCentimeter"
    /\ jpeg.width = 100 /\ jpeg.density_x = 100 /\ jpeg.density_y # 0

\* C7 as claimed: for every descriptor with density unit DotsPerInch or
\* DotsPerCentimeter, and every u16 density value, a page size is computed and
\* it is the floor of the quotient; 1x1 px at 72x72 DotsPerInch gives 1pt x
\* 1pt, and 100 px at 100 DotsPerCentimeter gives 283.
C7_Original ==
    /\ (pc # "size" /\ HasPageUnit) => PageSizeIsFloor
    /\ (pc # "size" /\ OneByOneAt72) => (width_pt = 1 /\ height_pt = 1)
    /\ (pc # "size" /\ HundredAt100) => width_pt = 283

\* C7 as amended: for every descriptor with density unit DotsPerInch and
\* nonzero densities the computed page width is floor(width_px * 72 /
\* density_x), and for DotsPerCentimeter it is floor(width_px * 7200 /
\* (density_x * 254)), the height likewise from height_px and density_y (so
\* 1x1 px at 72x72 DotsPerInch gives 1pt x 1pt, and 100 px at 100
\* DotsPerCentimeter gives 28); with a density of zero the division panics
\* and no page size is computed.
C7_PageSize ==
    /\ (pc # "size" /\ HasPageUnit /\ jpeg.density_x # 0 /\ jpeg.density_y # 0) =>
          PageSizeIsFloor
    /\ (pc # "size" /\ HasPageUnit /\ (jpeg.density_x = 0 \/ jpeg.density_y = 0)) =>
          pc = "panic"
    /\ (pc # "size" /\ OneByOneAt72) => (width_pt = 1 /\ height_pt = 1)
    /\ (pc # "size" /\ HundredAt100) => width_pt = 28

\* C7 witness: 100 px at 100 dots per centimeter, and the largest u16 height
C7_Witness ==
    /\ pc = "build"
    /\ HundredAt100
    /\ width_pt = 28
    /\ jpeg.height = 65535 /\ jpeg.density_y = 72 /\ height_pt = 25801

----------------------------------------------------------------------------
(* Claims about main *)

\* failures of the parse and of main's checks of the descriptor
CheckErrors ==
    {"UnexpectedEndOfData", "MalformedStructure", "MissingRequiredSegment",
     "JPEG bit depth is not supported", "color space is not supported",
     "no density unit specified", "unknown density unit"}

\* failures of the file system
IoErrors ==
    {"failed to open input JPEG file", "failed to create output PDF file",
     "failed to write output PDF file"}

\* the parse has succeeded: start-of-scan was reached and a frame was seen
Parsed ==
    /\ records # <<>>
    /\ records[Len(records)].kind = Marker.SOS
    /\ \E i \in 1..Len(records) : IsStartOfFrame(records[i].kind)
    /\ pc # "read_scan"

\* C5: in every run where the parse fails (an input without start-of-frame
\* included), or the bit depth is not 8, or the color space is Other, or the
\* density unit is NoUnit or unrecognized, the run ends in a failure, the
\* output file is never created and no output byte is written; the output
\* file is created only after all of these checks have passed.
C5_AbortBeforeOutput ==
    /\ (pc = "panic" /\ err \in CheckErrors) => (~created /\ out = <<>>)
    /\ (created \/ out # <<>>) =>
          /\ Parsed
          /\ jpeg.bit_depth = 8
          /\ jpeg.color_space.tag # "Other"
          /\ HasPageUnit
    /\ pc = "done" => created

\* C5 witness: the last check before the output file is created has failed
C5_Witness ==
    /\ pc = "panic"
    /\ err = "unknown density unit"
    /\ Parsed
    /\ jpeg.bit_depth = 8
    /\ ~created

\* this pass and the previous one ran on the same file with different flags
OtherFlagRun == prev.ran /\ prev.file = file /\ prev.flag # remove_optional_metadata

\* whether a run that is at pcv, having failed with errv if at all, has built
\* its page and image objects
Built(pcv, errv) ==
    \/ pcv \in {"create", "write", "write_objects", "write_xref", "done"}
    \/ pcv = "panic" /\ errv \in {"failed to create output PDF file",
                                  "failed to write output PDF file"}

\* C9: the flag affects only the list of leading segments: for the same input
\* the run with the flag set and the run with it clear fail the same checks or
\* both pass them, and compute the same page size, the same painting command
\* and the same image width, height, color space and bits per component.
C9_FlagOnlyFiltersSegments ==
    OtherFlagRun =>
        /\ (Built(pc, err) /\ Built(prev.pc, prev.err)) =>
              /\ width_pt = prev.width_pt
              /\ height_pt = prev.height_pt
              /\ objects[5].commands = prev.commands
              /\ image.width = prev.image.width
              /\ image.height = prev.image.height
              /\ image.color_space = prev.image.color_space
              /\ image.bits_per_component = prev.image.bits_per_component
        /\ (pc = "panic" /\ err \in CheckErrors) =>
              (prev.pc = "panic" /\ prev.err \in IoErrors \cup {err})
        /\ (pc = "done" /\ prev.pc = "panic") => prev.err \in IoErrors

\* C9 witness: both runs are done, and the one with the flag set has dropped
\* the application segment that carried the density
C9_Witness ==
    /\ OtherFlagRun
    /\ pc = "done"
    /\ prev.pc = "done"
    /\ remove_optional_metadata
    /\ Len(image.data) < Len(prev.image.data)
    /\ width_pt = 200 /\ height_pt = 100

----------------------------------------------------------------------------
(* Claims about the parser and the rewriter *)

\* the records of the scanner that are leading segments
LeadingRecords(recs) ==
    SelectSeq(recs, LAMBDA r : r.kind \notin {Marker.SOI, Marker.EOI, Marker.SOS})

\* whether the bytes hold a start-of-scan marker
HasSOS(bytes) ==
    \E i \in 1..(Len(bytes) - 1) : bytes[i] = 255 /\ bytes[i + 1] = Marker.SOS

\* the bytes from the first start-of-scan marker on (no payload of the
\* generated segments holds the two bytes of that marker)
FromSOS(bytes) ==
    SubSeq(bytes,
           Min({ i \in 1..(Len(bytes) - 1) : bytes[i] = 255 /\ bytes[i + 1] = Marker.SOS }),
           Len(bytes))

\* whether no marker from index p up to the first start-of-scan is preceded
\* by a fill byte
RECURSIVE FillFreeFrom(_, _)
FillFreeFrom(bytes, p) ==
    LET r == NextRecord(bytes, p) IN
    IF ~r.ok THEN TRUE
    ELSE /\ bytes[p + 1] # 255
         /\ (r.kind = Marker.SOS \/ FillFreeFrom(bytes, r.pos))

FillFree(bytes) == FillFreeFrom(bytes, 3)

\* the segments of a stream from index p up to the first start-of-scan
RECURSIVE SegmentsFrom(_, _)
SegmentsFrom(bytes, p) ==
    LET r == NextRecord(bytes, p) IN
    IF ~r.ok THEN <<>>
    ELSE <<[kind |-> r.kind, data |-> r.data]>>
         \o (IF r.kind = Marker.SOS THEN <<>> ELSE SegmentsFrom(bytes, r.pos))

\* whether a is b with some elements left out
RECURSIVE IsSubSeq(_, _)
IsSubSeq(a, b) ==
    IF a = <<>> THEN TRUE
    ELSE IF b = <<>> THEN FALSE
    ELSE IF Head(a) = Head(b) THEN IsSubSeq(Tail(a), Tail(b))
    ELSE IsSubSeq(a, Tail(b))

EndsWithEOI(bytes) ==
    Len(bytes) >= 2 /\ SubSeq(bytes, Len(bytes) - 1, Len(bytes)) = <<255, Marker.EOI>>

C2_ScanDataUntouched ==
    pc = "written" =>
        /\ HasSOS(image.data)
        /\ FromSOS(image.data) = FromSOS(file)
        /\ (prev.ran /\ prev.pc = "written" /\ prev.file = file) =>
              FromSOS(image.data) = FromSOS(prev.image.data)

\* C2 witness: the same file rewritten with the flag clear and then set, the
\* second stream shorter than the first
C2_Witness ==
    /\ pc = "written"
    /\ remove_optional_metadata
    /\ prev.ran /\ prev.pc = "written" /\ prev.file = file /\ ~prev.flag
    /\ Len(image.data) < Len(prev.image.data)
    /\ FromSOS(image.data) = FromSOS(prev.image.data)

\* the required leading segments of the parsed input, in file order
RequiredRecords == SelectSeq(LeadingRecords(records), is_required)

\* C3: with the flag set, every required leading segment of the parsed input
\* is in the descriptor and in the rewritten stream, in the original order;
\* the stream begins with start-of-image and ends with the end-of-image the
\* input ends with.
C3_RequiredKept ==
    /\ (pc \in {"image", "written"} /\ remove_optional_metadata) =>
          IsSubSeq(RequiredRecords, jpeg.leading_blocks)
    /\ (pc = "written" /\ remove_optional_metadata) =>
          /\ IsSubSeq(RequiredRecords, SegmentsFrom(image.data, 3))
          /\ SubSeq(image.data, 1, 2) = <<255, Marker.SOI>>
          /\ EndsWithEOI(file) => EndsWithEOI(image.data)

\* C3 witness: two required segments at least are kept and an optional one
\* is dropped
C3_Witness ==
    /\ pc = "written"
    /\ remove_optional_metadata
    /\ Len(RequiredRecords) >= 2
    /\ Len(LeadingRecords(records)) > Len(RequiredRecords)
    /\ EndsWithEOI(image.data)

\* this pass reads the stream the previous pass wrote, both with the flag set
SecondFiltering ==
    /\ prev.ran /\ prev.pc = "written" /\ prev.flag
    /\ remove_optional_metadata
    /\ file = prev.image.data

\* C4: the stream rewritten with the flag set, parsed and rewritten with the
\* flag set again, parses and is rewritten to the same bytes.
C4_Idempotent ==
    SecondFiltering =>
        /\ pc \notin {"panic", "none"}
        /\ pc = "written" => image.data = prev.image.data

\* C4 witness: the first pass dropped a segment, the second has rewritten
C4_Witness ==
    /\ SecondFiltering
    /\ pc = "written"
    /\ Len(prev.file) > Len(file)
    /\ Len(jpeg.leading_blocks) >= 2

\* C8: the scanner yields a record for every segment up to the first
\* start-of-scan and then halts: start-of-scan is the last record, the
\* scanner is not run after it, the reader is then at the first byte of the
\* entropy-coded data, and every record has consumed bytes of the file.
C8_ScannerHalts ==
    /\ \A i \in 1..(Len(records) - 1) : records[i].kind # Marker.SOS
    /\ (records # <<>> /\ records[Len(records)].kind = Marker.SOS) => pc # "read"
    /\ pc = "read_scan" =>
          /\ records[Len(records)].kind = Marker.SOS
          /\ records = <<[kind |-> Marker.SOI, data |-> <<>>]>> \o SegmentsFrom(file, 3)
          /\ LET at == Len(file) - Len(FromSOS(file)) + 1 IN
             pos = at + 2 + U16(file[at + 2], file[at + 3])
          /\ FillFree(file) => WriteBlocks(records) = SubSeq(file, 1, pos - 1)
    /\ pc \in {"read", "read_scan"} => (2 * Len(records) <= pos - 1 /\ pos - 1 <= Len(file))

\* C8 witness: the scanner has halted after four records at least, on a file
\* with a fill byte, with bytes left unread
C8_Witness ==
    /\ pc = "read_scan"
    /\ Len(records) >= 4
    /\ ~FillFree(file)
    /\ pos < Len(file)

====
